---- MODULE Spec2Model ----
(***************************************************************************)
(* Tournament orchestration and rating updates of the chess bot server.    *)
(*                                                                         *)
(* The persistent state is the database behind server/storage.ts (users,   *)
(* games, tournaments, tournament_participants).  Every async operation of *)
(* TournamentService and of the HTTP routes is a call that advances one    *)
(* storage access (one await) at a time, so calls interleave exactly where *)
(* the code awaits.                                                        *)
(***************************************************************************)
EXTENDS Integers, Sequences, FiniteSets, Bags, TLC

(***************************************************************************)
(* Bounds of the model.                                                    *)
(***************************************************************************)
MaxCalls == 3          \* calls of any kind started in one behaviour of Spec
MaxJoins == 2          \* join requests started in one behaviour
MaxStarts == 1         \* startTournament calls started in one behaviour
MaxCompletions == 2    \* handleGameCompletion calls started in one behaviour
MaxGames == 1          \* games inserted through POST /api/games
MaxSlots == 2          \* calls in flight at the same time
ScenarioCap == 4       \* competitors of the end-to-end scenario
MaxRuns == 2           \* evaluations of one function on the same arguments
MaxRound == 4          \* participants handed to the bracket generator
MaxHandlers == 2       \* bot callbacks in flight at the same time
MaxCallbacks == 3      \* bot callbacks received in one behaviour

(***************************************************************************)
(* Program constants.                                                      *)
(***************************************************************************)
HIGH_RATING_THRESHOLD == 2400
MEDIUM_RATING_THRESHOLD == 2100
LOW_RATING_K_FACTOR == 40
MEDIUM_RATING_K_FACTOR == 32
HIGH_RATING_K_FACTOR == 16
PROVISIONAL_GAMES_THRESHOLD == 30
RATING_FLOOR == 100
RATING_CEILING == 3000
DEFAULT_ELO == 1200
DEFAULT_GAMES_PLAYED == 50
MinParticipants == 2
DailyMaxParticipants == 16
WeeklyMaxParticipants == 32

UserOrder == <<"u1", "u2", "u3", "u4">>
Users == {UserOrder[i] : i \in 1..Len(UserOrder)}
\* the user of the n-th join request
NthUser(n) == UserOrder[((n - 1) % Len(UserOrder)) + 1]
TournamentIds == {"t1"}
Slots == 1..MaxSlots
Handlers == 1..MaxHandlers
NULL == "null"

TournamentStatus == {"upcoming", "active", "completed", "cancelled"}
GameResults == {"white_wins", "black_wins", "draw"}

\* Inputs the model feeds to the operations.
RatingSeeds == {RATING_FLOOR, RATING_CEILING}
CapInputs == {1, 2}
ResultInputs == GameResults
\* the result strings calculateEloChange accepts
AcceptedResults ==
    {"white_wins", "black_wins", "draw", "player1_wins", "player2_wins", "win", "loss"}
GamePlayers == {<<"u1", "u2">>}
EloRatingInputs == {50, RATING_FLOOR, DEFAULT_ELO, HIGH_RATING_THRESHOLD, RATING_CEILING, 3100}
GamesPlayedInputs == {0, 10, 29, PROVISIONAL_GAMES_THRESHOLD, DEFAULT_GAMES_PLAYED}
MatchResults == {"player1_wins", "player2_wins", "draw"}
FloorInputs == {0, RATING_FLOOR, 500}
CeilingInputs == {0, 500, RATING_CEILING}
ThresholdInputs == {0, 10, 40}
KFactorInputs == {HIGH_RATING_K_FACTOR}

VARIABLES
    users,          \* users table: id -> rating record
    games,          \* games table: sequence of rows, the id is the index
    tournaments,    \* tournaments table: id -> row (partial function)
    participants,   \* tournament_participants table: bag of rows
    calls,          \* calls in flight, per slot
    started,        \* number of calls started so far, per operation
    returned,       \* operation, tournament and outcome of the last call that returned
    probe,          \* a direct evaluation of a function: name, arguments, results
    bot             \* the Telegram bot: the session of a chat, its game, its callbacks

vars == <<users, games, tournaments, participants, calls, started, returned, probe, bot>>

(***************************************************************************)
(* Rating engine (EloCalculator).                                          *)
(*                                                                         *)
(* calculateExpectedScore is 1 / (1 + 10^(d/400)) with d = opponent -      *)
(* player.  Math.round(K * (1 - expected)) is a step function of d that    *)
(* climbs from 0 to K; WinThresholds[K][v] is the least integer d at which *)
(* it reaches v, i.e. ceil(400 * log10((2v-1) / (2K-2v+1))), evaluated in  *)
(* IEEE doubles with Math.round's ties-toward-plus-infinity.               *)
(***************************************************************************)
WinThresholds16 ==
    <<-596, -394, -292, -221, -162, -112, -65, -21,
      22, 66, 113, 163, 222, 293, 395, 597>>

WinThresholds32 ==
    <<-719, -523, -428, -364, -314, -273, -237, -205, -176, -149, -124,
      -100, -77, -54, -32, -10, 11, 33, 55, 78, 101, 125, 150, 177, 206,
      238, 274, 315, 365, 429, 524, 720>>

WinThresholds40 ==
    <<-759, -563, -470, -407, -358, -318, -284, -254, -227, -202, -179,
      -157, -136, -117, -98, -79, -61, -43, -26, -8, 9, 27, 44, 62, 80,
      99, 118, 137, 158, 180, 203, 228, 255, 285, 319, 359, 408, 471,
      564, 760>>

WinThresholds(k) ==
    CASE k = 16 -> WinThresholds16
      [] k = 32 -> WinThresholds32
      [] k = 40 -> WinThresholds40

\* Math.round(k * (1 - calculateExpectedScore(player, opponent)))
WinPoints(k, playerRating, opponentRating) ==
    LET d  == opponentRating - playerRating
        th == WinThresholds(k)
    IN  Cardinality({v \in 1..Len(th) : d >= th[v]})

\* k * (1 - actualScore) for actualScore 1, 0.5, 0
ScoreDeficit(k, result) ==
    CASE result = "win"  -> 0
      [] result = "draw" -> k \div 2
      [] result = "loss" -> k

\* EloCalculationOptions: the fields in `given` are present in the object
NoOptions ==
    [given |-> {}, kFactor |-> 0, provisionalThreshold |-> 0,
     ratingFloor |-> 0, ratingCeiling |-> 0]

\* options?.field || fallback: a missing field and a falsy one (0) fall back
OptionOr(options, field, fallback) ==
    IF field \in options.given /\ options[field] # 0
    THEN options[field]
    ELSE fallback

IsProvisional_halfThreshold(gamesPlayed, options) ==
    gamesPlayed < OptionOr(options, "provisionalThreshold",
                           PROVISIONAL_GAMES_THRESHOLD) \div 2

\* gamesPlayed < (options?.provisionalThreshold || PROVISIONAL_GAMES_THRESHOLD)
IsProvisional(gamesPlayed, options) ==
    gamesPlayed < OptionOr(options, "provisionalThreshold",
                           PROVISIONAL_GAMES_THRESHOLD)

\* the K-factor of a player who is not provisional
RatingBand(playerRating) ==
    IF playerRating >= HIGH_RATING_THRESHOLD
    THEN HIGH_RATING_K_FACTOR
    ELSE IF playerRating >= MEDIUM_RATING_THRESHOLD
         THEN MEDIUM_RATING_K_FACTOR
         ELSE LOW_RATING_K_FACTOR

calculateKFactor(playerRating, gamesPlayed, options) ==
    IF OptionOr(options, "kFactor", 0) # 0
    THEN options.kFactor
    ELSE IF IsProvisional(gamesPlayed, options)
         THEN LOW_RATING_K_FACTOR
         ELSE RatingBand(playerRating)

\* EloCalculator.calculateEloChange: Math.round(K * (actual - expected))
EloCalculator_calculateEloChange(playerRating, opponentRating, result, gamesPlayed) ==
    LET k == calculateKFactor(playerRating, gamesPlayed, NoOptions)
    IN  WinPoints(k, playerRating, opponentRating) - ScoreDeficit(k, result)

\* the switch of the exported calculateEloChange; "invalid" is the throw
GameResultOf(result) ==
    CASE result \in {"white_wins", "player1_wins", "win"}  -> "win"
      [] result \in {"black_wins", "player2_wins", "loss"} -> "loss"
      [] result = "draw"                                   -> "draw"
      [] OTHER                                             -> "invalid"

calculateEloChange(playerRating, opponentRating, result) ==
    EloCalculator_calculateEloChange(playerRating, opponentRating,
                                     GameResultOf(result), DEFAULT_GAMES_PLAYED)

\* the switch of calculateNewRatings: actualScore1 and actualScore2
ActualScore1(result) ==
    CASE result = "player1_wins" -> "win"
      [] result = "player2_wins" -> "loss"
      [] result = "draw"         -> "draw"

ActualScore2(result) ==
    CASE result = "player1_wins" -> "loss"
      [] result = "player2_wins" -> "win"
      [] result = "draw"         -> "draw"

\* Math.max(floor, Math.min(ceiling, rating))
Clamp(rating, floor, ceiling) ==
    LET capped == IF rating < ceiling THEN rating ELSE ceiling
    IN  IF capped > floor THEN capped ELSE floor

calculateNewRatings(player1Rating, player2Rating, player1GamesPlayed, player2GamesPlayed, result, options) ==
    LET kFactor1 == calculateKFactor(player1Rating, player1GamesPlayed, options)
        kFactor2 == calculateKFactor(player2Rating, player2GamesPlayed, options)
        change1  == WinPoints(kFactor1, player1Rating, player2Rating)
                       - ScoreDeficit(kFactor1, ActualScore1(result))
        change2  == WinPoints(kFactor2, player2Rating, player1Rating)
                       - ScoreDeficit(kFactor2, ActualScore2(result))
        floor    == OptionOr(options, "ratingFloor", RATING_FLOOR)
        ceiling  == OptionOr(options, "ratingCeiling", RATING_CEILING)
        newRating1 == Clamp(player1Rating + change1, floor, ceiling)
        newRating2 == Clamp(player2Rating + change2, floor, ceiling)
    IN  [newRatingPlayer1 |-> newRating1,
         newRatingPlayer2 |-> newRating2,
         changePlayer1    |-> newRating1 - player1Rating,
         changePlayer2    |-> newRating2 - player2Rating]

\* the options objects handed to the rating engine
OptionInputs ==
    {NoOptions}
    \cup {[NoOptions EXCEPT !.given = {"ratingFloor", "ratingCeiling"},
                            !.ratingFloor = b[1], !.ratingCeiling = b[2]] :
             b \in {x \in FloorInputs \X CeilingInputs : x[1] <= x[2]}}
    \cup {[NoOptions EXCEPT !.given = {"provisionalThreshold"},
                            !.provisionalThreshold = t] : t \in ThresholdInputs}
    \cup {[NoOptions EXCEPT !.given = {"kFactor"}, !.kFactor = k] :
             k \in KFactorInputs}

(***************************************************************************)
(* Storage rows and queries.                                               *)
(***************************************************************************)
NewUser(rating) ==
    [eloRating |-> rating, gamesPlayed |-> 0, gamesWon |-> 0,
     gamesLost |-> 0, gamesDrawn |-> 0]

NewTournament(st, cap, auto, startTime) ==
    [status |-> st, maxParticipants |-> cap, currentParticipants |-> 0,
     isAutomated |-> auto, startTime |-> startTime, endTime |-> NULL,
     winnerId |-> NULL, eliminationFormat |-> "single"]

NewGame(white, black, tid, rated) ==
    [whitePlayerId |-> white, blackPlayerId |-> black, status |-> "active",
     tournamentId |-> tid, isRated |-> rated, result |-> NULL,
     whiteEloChange |-> 0, blackEloChange |-> 0]

ParticipantRow(tid, uid) ==
    [tournamentId |-> tid, userId |-> uid, eliminated |-> FALSE]

\* storage.getTournament(id) is defined
TournamentExists(tid) == tid \in DOMAIN tournaments

\* rows of tournament_participants of one tournament
RegisteredCount(tid) ==
    BagCardinality([r \in {x \in BagToSet(participants) : x.tournamentId = tid}
                       |-> participants[r]])

RegisteredUsers(tid) ==
    {r.userId : r \in {x \in BagToSet(participants) : x.tournamentId = tid}}

\* TournamentService.getTournamentParticipants: returns the empty list
getTournamentParticipants(tid) == <<>>

getRemainingPlayers_noElimination(tid) ==
    IF \E g \in DOMAIN games : games[g].tournamentId = tid
    THEN LET g == CHOOSE x \in DOMAIN games : games[x].tournamentId = tid
         IN  <<games[g].whitePlayerId, games[g].blackPlayerId>>
    ELSE <<>>

\* TournamentService.getRemainingPlayers: returns the empty list
getRemainingPlayers(tid) == <<>>

\* TournamentService.getTournamentActiveGames
getTournamentActiveGames(tid) ==
    {g \in DOMAIN games : games[g].status = "active" /\ games[g].tournamentId = tid}

TournamentGames(tid) ==
    {g \in DOMAIN games : games[g].tournamentId = tid}

(***************************************************************************)
(* Guards of the service operations.                                       *)
(***************************************************************************)
\* joinTournament: tournament.status !== 'upcoming' throws
AcceptsRegistrations(t) == t.status = "upcoming"

\* joinTournament: currentParticipants >= maxParticipants throws
IsFull(t) == t.currentParticipants >= t.maxParticipants

\* joinTournament: auto-start condition after the join
ShouldAutoStart(t) == t.isAutomated /\ t.currentParticipants >= t.maxParticipants

StartAllowed_notCompleted(t) == t.status # "completed"

\* startTournament: tournament.status !== 'upcoming' throws
StartAllowed(t) == t.status = "upcoming"

NotEnoughParticipants_never(ps) == Len(ps) < 0

\* startTournament: participants.length < 2 throws
NotEnoughParticipants(ps) == Len(ps) < MinParticipants

RoundCheckApplies_anyStatus(t) == TRUE

\* checkRoundCompletion: returns unless tournament.status === 'active'
RoundCheckApplies(t) == t.status = "active"

(***************************************************************************)
(* Bracket generation.                                                     *)
(***************************************************************************)
\* the orders [...participants].sort(() => Math.random() - 0.5) can produce
Shuffles(ps) ==
    {s \in [1..Len(ps) -> 1..Len(ps)] :
        \A i, j \in 1..Len(ps) : i # j => s[i] # s[j]}

SingleEliminationGames_overlapping(tid, shuffled) ==
    [m \in 1..(IF Len(shuffled) = 0 THEN 0 ELSE Len(shuffled) - 1) |->
        NewGame(shuffled[m], shuffled[m + 1], tid, TRUE)]

\* generateSingleEliminationRound: elements i, i+1 of the shuffled list
SingleEliminationGames(tid, shuffled) ==
    [m \in 1..(Len(shuffled) \div 2) |->
        NewGame(shuffled[2 * m - 1], shuffled[2 * m], tid, TRUE)]

RECURSIVE RoundRobinFrom(_, _, _, _)
RoundRobinFrom(tid, ps, i, j) ==
    IF i > Len(ps) THEN <<>>
    ELSE IF j > Len(ps) THEN RoundRobinFrom(tid, ps, i + 1, i + 2)
    ELSE <<NewGame(ps[i], ps[j], tid, TRUE)>> \o RoundRobinFrom(tid, ps, i, j + 1)

RoundRobinGames_fromSelf(tid, ps) == RoundRobinFrom(tid, ps, 1, 1)

\* generateRoundRobinRound: every pair i < j
RoundRobinGames(tid, ps) == RoundRobinFrom(tid, ps, 1, 2)

\* generateRound: the sequences of games one call may insert
generateRound(tid, ps) ==
    IF ~TournamentExists(tid) THEN {<<>>}
    ELSE IF tournaments[tid].eliminationFormat = "round_robin"
         THEN {RoundRobinGames(tid, ps)}
         ELSE {SingleEliminationGames(tid, [i \in 1..Len(ps) |-> ps[s[i]]]) :
                  s \in Shuffles(ps)}

(***************************************************************************)
(* Calls.                                                                  *)
(***************************************************************************)
NoUser == NewUser(0)

IdleCall ==
    [op |-> "idle", pc |-> "done", tid |-> NULL, uid |-> NULL, gid |-> 0,
     result |-> NULL, seen |-> NULL, regs |-> 0,
     white |-> NoUser, black |-> NoUser, change |-> 0, pending |-> {},
     parts |-> <<>>, winner |-> NULL]

Running(c) == calls[c].pc # "done"

\* a new call takes the lowest slot whose previous call has returned
FreeSlot(c) ==
    /\ ~Running(c)
    /\ \A d \in Slots : d < c => Running(d)

\* the calls of one kind and the calls overall stay within their bounds
WithinBudget(kind, limit, total) ==
    /\ started[kind] < limit
    /\ started.join + started.start + started.complete < total

\* the call returns (outcome "ok" or "returned") or throws (any other outcome)
Return(c, outcome) ==
    /\ calls' = [calls EXCEPT ![c] = IdleCall]
    /\ returned' = [op |-> calls[c].op, tid |-> calls[c].tid, outcome |-> outcome]
    /\ UNCHANGED <<probe, bot>>

\* the call goes on with new locals
Continue(c, locals) ==
    /\ calls' = [calls EXCEPT ![c] = locals]
    /\ UNCHANGED <<returned, probe, bot>>

Goto(c, pc) == Continue(c, [calls[c] EXCEPT !.pc = pc])

\* no function is evaluated on its own
NoProbe == [fn |-> "none", args |-> <<>>, runs |-> 0, out |-> NULL, prev |-> NULL]

\* a callback handler of the bot that is not running
IdleHandler == [op |-> "idle", pc |-> "done", move |-> 0, moves |-> <<>>, user |-> NoUser]

\* the bot right after construction: no session, no game, no callback
NoBot ==
    [session |-> [active |-> FALSE, userId |-> NULL, isPlayerTurn |-> FALSE],
     game |-> [status |-> NULL, result |-> NULL, moveHistory |-> <<>>],
     handlers |-> [h \in Handlers |-> IdleHandler], callbacks |-> 0]

\* the tables after the users have registered; no call has been made
InitTables(seeds) ==
    /\ users \in {[u \in Users |-> NewUser(IF u = "u1" THEN r1
                                           ELSE IF u = "u2" THEN r2
                                           ELSE DEFAULT_ELO)] :
                     r1 \in seeds, r2 \in seeds}
    /\ games = <<>>
    /\ tournaments = <<>>
    /\ participants = EmptyBag
    /\ calls = [c \in Slots |-> IdleCall]
    /\ started = [join |-> 0, start |-> 0, complete |-> 0]
    /\ returned = [op |-> "idle", tid |-> NULL, outcome |-> "none"]

\* the database with the bot idle
InitDatabase(seeds) ==
    /\ InitTables(seeds)
    /\ bot = NoBot

InitWith(seeds) ==
    /\ InitDatabase(seeds)
    /\ probe = NoProbe

\* every user at the default rating of the schema
Init == InitWith({DEFAULT_ELO})

\* the two players of the games anywhere between floor and ceiling
InitRatings == InitWith(RatingSeeds)


(***************************************************************************)
(* HTTP routes that are one storage call each.                             *)
(***************************************************************************)
\* POST /api/tournaments -> storage.createTournament (status is insertable)
CreateTournament(tid, st, cap, auto, startTime) ==
    /\ ~TournamentExists(tid)
    /\ tournaments' = tournaments @@ (tid :> NewTournament(st, cap, auto, startTime))
    /\ UNCHANGED <<users, games, participants, calls, started, returned, probe, bot>>

\* POST /api/games -> storage.createGame
CreateGame(white, black, tid, rated) ==
    /\ Len(games) < MaxGames
    /\ games' = Append(games, NewGame(white, black, tid, rated))
    /\ UNCHANGED <<users, tournaments, participants, calls, started, returned, probe, bot>>

\* PATCH /api/games/:id -> storage.updateGame, here the end of a game
FinishGame(g) ==
    /\ g \in DOMAIN games
    /\ games[g].status = "active"
    /\ games' = [games EXCEPT ![g].status = "completed"]
    /\ UNCHANGED <<users, tournaments, participants, calls, started, returned, probe, bot>>

(***************************************************************************)
(* TournamentService.joinTournament                                        *)
(***************************************************************************)
BeginJoin(c, tid, limit, total) ==
    /\ FreeSlot(c)
    /\ WithinBudget("join", limit, total)
    /\ Continue(c,
                    [IdleCall EXCEPT !.op = "join", !.pc = "j_get", !.tid = tid,
                                     !.uid = NthUser(started.join + 1)])
    /\ started' = [started EXCEPT !.join = @ + 1]
    /\ UNCHANGED <<users, games, tournaments, participants>>

\* storage.getTournament and the three checks
JoinGet(c) ==
    /\ calls[c].pc = "j_get"
    /\ LET tid == calls[c].tid IN
       IF ~TournamentExists(tid) THEN Return(c, "NotFound")
       ELSE IF ~AcceptsRegistrations(tournaments[tid]) THEN Return(c, "InvalidState")
       ELSE IF IsFull(tournaments[tid]) THEN Return(c, "Full")
       ELSE Goto(c, "j_insert")
    /\ UNCHANGED <<users, games, tournaments, participants, started>>

\* storage.joinTournament, first statement: insert the participant row.
\* tournament_id references tournaments.id, so the insert of an unknown
\* tournament is rejected by the database.
StorageJoinInsert(c, next) ==
    LET tid == calls[c].tid IN
    IF ~TournamentExists(tid)
    THEN /\ Return(c, "ServerError")
         /\ UNCHANGED participants
    ELSE /\ participants' = participants (+) SetToBag({ParticipantRow(tid, calls[c].uid)})
         /\ Goto(c, next)

\* storage.joinTournament, second statement: currentParticipants + 1 in SQL
StorageJoinIncrement(tid) ==
    tournaments' = [tournaments EXCEPT
                       ![tid].currentParticipants = tournaments[tid].currentParticipants + 1]

JoinInsert(c) ==
    /\ calls[c].pc = "j_insert"
    /\ StorageJoinInsert(c, "j_incr")
    /\ UNCHANGED <<users, games, tournaments, started>>

JoinIncrement(c) ==
    /\ calls[c].pc = "j_incr"
    /\ StorageJoinIncrement(calls[c].tid)
    /\ Goto(c, "j_reget")
    /\ UNCHANGED <<users, games, participants, started>>

\* second storage.getTournament: auto-start when the cap is reached
JoinAutoStart(c) ==
    /\ calls[c].pc = "j_reget"
    /\ LET tid == calls[c].tid IN
       IF TournamentExists(tid) /\ ShouldAutoStart(tournaments[tid])
       THEN Goto(c, "s_get")
       ELSE Return(c, "ok")
    /\ UNCHANGED <<users, games, tournaments, participants, started>>

(***************************************************************************)
(* POST /api/tournaments/:id/join: storage.joinTournament with no check    *)
(***************************************************************************)
BeginRouteJoin(c, tid, limit, total) ==
    /\ FreeSlot(c)
    /\ WithinBudget("join", limit, total)
    /\ Continue(c,
                    [IdleCall EXCEPT !.op = "routejoin", !.pc = "r_insert", !.tid = tid,
                                     !.uid = NthUser(started.join + 1)])
    /\ started' = [started EXCEPT !.join = @ + 1]
    /\ UNCHANGED <<users, games, tournaments, participants>>

RouteJoinInsert(c) ==
    /\ calls[c].pc = "r_insert"
    /\ StorageJoinInsert(c, "r_incr")
    /\ UNCHANGED <<users, games, tournaments, started>>

RouteJoinIncrement(c) ==
    /\ calls[c].pc = "r_incr"
    /\ StorageJoinIncrement(calls[c].tid)
    /\ Return(c, "ok")
    /\ UNCHANGED <<users, games, participants, started>>

(***************************************************************************)
(* TournamentService.startTournament, called directly, by the timer of     *)
(* scheduleTournamentStart, or by joinTournament (pc s_get of a join).     *)
(***************************************************************************)
BeginStart(c, tid, total) ==
    /\ FreeSlot(c)
    /\ WithinBudget("start", MaxStarts, total)
    /\ Continue(c,
                    [IdleCall EXCEPT !.op = "start", !.pc = "s_get", !.tid = tid])
    /\ started' = [started EXCEPT !.start = @ + 1]
    /\ UNCHANGED <<users, games, tournaments, participants>>

\* storage.getTournament and the status check
StartGet(c) ==
    /\ calls[c].pc = "s_get"
    /\ LET tid == calls[c].tid IN
       IF ~TournamentExists(tid) THEN Return(c, "NotFound")
       ELSE IF ~StartAllowed(tournaments[tid])
            THEN Return(c, "InvalidState")
            ELSE Continue(c, [calls[c] EXCEPT !.pc = "s_parts",
                                        !.seen = tournaments[tid].status,
                                        !.regs = RegisteredCount(tid)])
    /\ UNCHANGED <<users, games, tournaments, participants, started>>

\* the rest of startTournament: the participants check, then
\* storage.updateTournament, then generateRound
StartRun(c) ==
    /\ calls[c].pc \in {"s_parts", "s_update", "s_round"}
    /\ LET tid == calls[c].tid IN
       CASE calls[c].pc = "s_parts" ->
              /\ LET ps == getTournamentParticipants(tid) IN
                 IF NotEnoughParticipants(ps)
                 THEN Return(c, "InsufficientParticipants")
                 ELSE Continue(c, [calls[c] EXCEPT !.pc = "s_update", !.parts = ps])
              /\ UNCHANGED <<tournaments, games>>
         [] calls[c].pc = "s_update" ->
              /\ tournaments' = [tournaments EXCEPT ![tid].status = "active",
                                                    ![tid].startTime = "stamped"]
              /\ Goto(c, "s_round")
              /\ UNCHANGED games
         [] calls[c].pc = "s_round" ->
              /\ \E round \in generateRound(tid, calls[c].parts) :
                    games' = games \o round
              /\ Return(c, "ok")
              /\ UNCHANGED tournaments
    /\ UNCHANGED <<users, participants, started>>


(***************************************************************************)
(* TournamentService.handleGameCompletion.  Its try/catch swallows every   *)
(* error, so the call always returns normally ("returned").                *)
(***************************************************************************)
BeginCompletion(c, gid, result, total) ==
    /\ FreeSlot(c)
    /\ WithinBudget("complete", MaxCompletions, total)
    /\ Continue(c,
                    [IdleCall EXCEPT !.op = "complete", !.pc = "h_game",
                                     !.gid = gid, !.result = result])
    /\ started' = [started EXCEPT !.complete = @ + 1]
    /\ UNCHANGED <<users, games, tournaments, participants>>

\* storage.getGame; returns when the game or its tournamentId is missing
CompletionGetGame(c) ==
    /\ calls[c].pc = "h_game"
    /\ LET gid == calls[c].gid IN
       IF gid \notin DOMAIN games \/ games[gid].tournamentId = NULL
       THEN Return(c, "returned")
       ELSE Continue(c, [calls[c] EXCEPT !.pc = "h_tournament",
                                   !.tid = games[gid].tournamentId])
    /\ UNCHANGED <<users, games, tournaments, participants, started>>

\* storage.getTournament; returns when the tournament is missing
CompletionGetTournament(c) ==
    /\ calls[c].pc = "h_tournament"
    /\ LET g == games[calls[c].gid] IN
       IF ~TournamentExists(calls[c].tid) THEN Return(c, "returned")
       ELSE IF g.whitePlayerId # NULL /\ g.blackPlayerId # NULL
            THEN Goto(c, "h_white")
            ELSE Goto(c, "c_get")
    /\ UNCHANGED <<users, games, tournaments, participants, started>>

\* storage.getUser(game.whitePlayerId)
CompletionGetWhite(c) ==
    /\ calls[c].pc = "h_white"
    /\ Continue(c, [calls[c] EXCEPT !.pc = "h_black",
                              !.white = users[games[calls[c].gid].whitePlayerId]])
    /\ UNCHANGED <<users, games, tournaments, participants, started>>

\* storage.getUser(game.blackPlayerId), then calculateEloChange, which
\* throws on a result it does not know (the catch block returns)
CompletionGetBlack(c) ==
    /\ calls[c].pc = "h_black"
    /\ LET black == users[games[calls[c].gid].blackPlayerId] IN
       IF GameResultOf(calls[c].result) = "invalid"
       THEN Return(c, "returned")
       ELSE Continue(c, [calls[c] EXCEPT
                !.pc = "h_write",
                !.black = black,
                !.change = calculateEloChange(calls[c].white.eloRating,
                                                 black.eloRating, calls[c].result),
                !.pending = {"white", "black", "game"}])
    /\ UNCHANGED <<users, games, tournaments, participants, started>>

\* the updateUser patch of one player
PlayerUpdate(player, eloChange, result, winResult, lossResult) ==
    [eloRating   |-> player.eloRating + eloChange,
     gamesPlayed |-> player.gamesPlayed + 1,
     gamesWon    |-> IF result = winResult THEN player.gamesWon + 1 ELSE player.gamesWon,
     gamesLost   |-> IF result = lossResult THEN player.gamesLost + 1 ELSE player.gamesLost,
     gamesDrawn  |-> IF result = "draw" THEN player.gamesDrawn + 1 ELSE player.gamesDrawn]

\* one write of the Promise.all is committed: updateUser or updateGame
CommitWrite(call, w) ==
    LET g == games[call.gid] IN
    CASE w = "white" ->
           /\ users' = [users EXCEPT ![g.whitePlayerId] =
                 PlayerUpdate(call.white, call.change, call.result,
                              "white_wins", "black_wins")]
           /\ UNCHANGED games
      [] w = "black" ->
           /\ users' = [users EXCEPT ![g.blackPlayerId] =
                 PlayerUpdate(call.black, -call.change, call.result,
                              "black_wins", "white_wins")]
           /\ UNCHANGED games
      [] w = "game" ->
           /\ games' = [games EXCEPT ![call.gid].whiteEloChange = call.change,
                                     ![call.gid].blackEloChange = -call.change]
           /\ UNCHANGED users

\* Promise.all of three writes: each is committed on its own, in any order
CompletionWrite(c) ==
    /\ calls[c].pc = "h_write"
    /\ \E w \in calls[c].pending :
         LET call == calls[c] IN
         /\ CommitWrite(call, w)
         \* after the last write only the tournament id is still used
         /\ IF call.pending = {w}
            THEN Continue(c, [IdleCall EXCEPT !.op = call.op, !.pc = "c_get",
                                              !.tid = call.tid, !.gid = call.gid])
            ELSE Continue(c, [call EXCEPT !.pending = call.pending \ {w}])
    /\ UNCHANGED <<tournaments, participants, started>>

\* one write of the Promise.all is rejected by the database: Promise.all
\* rejects and the catch block returns, the writes already sent go on
CompletionWriteFails(c) ==
    /\ calls[c].pc = "h_write"
    /\ \E w \in calls[c].pending :
         Continue(c, [calls[c] EXCEPT !.pc = "h_abort",
                                      !.pending = calls[c].pending \ {w}])
    /\ UNCHANGED <<users, games, tournaments, participants, started>>

\* the writes sent before the rejection are committed or rejected one by
\* one; nothing undoes a committed write and checkRoundCompletion is skipped
CompletionAbort(c) ==
    /\ calls[c].pc = "h_abort"
    /\ IF calls[c].pending = {}
       THEN /\ Return(c, "returned")
            /\ UNCHANGED <<users, games>>
       ELSE \E w \in calls[c].pending :
              /\ \/ CommitWrite(calls[c], w)
                 \/ UNCHANGED <<users, games>>
              /\ Continue(c, [calls[c] EXCEPT !.pending = calls[c].pending \ {w}])
    /\ UNCHANGED <<tournaments, participants, started>>

(***************************************************************************)
(* TournamentService.checkRoundCompletion and completeTournament           *)
(***************************************************************************)
\* storage.getTournament; returns unless the tournament is active
RoundCheckGet(c) ==
    /\ calls[c].pc = "c_get"
    /\ IF ~TournamentExists(calls[c].tid) \/ ~RoundCheckApplies(tournaments[calls[c].tid])
       THEN Return(c, "returned")
       ELSE Goto(c, "c_games")
    /\ UNCHANGED <<users, games, tournaments, participants, started>>

\* getTournamentActiveGames; with none left, the remaining players decide
\* between completeTournament and the next round
RoundCheckGames(c) ==
    /\ calls[c].pc = "c_games"
    /\ LET tid == calls[c].tid IN
       IF getTournamentActiveGames(tid) # {}
       THEN /\ Return(c, "returned")
            /\ UNCHANGED games
       ELSE LET remainingPlayers == getRemainingPlayers(tid) IN
            IF Len(remainingPlayers) <= 1
            THEN /\ Continue(c, [calls[c] EXCEPT
                        !.pc = "c_complete",
                        !.winner = IF Len(remainingPlayers) = 0 THEN NULL
                                      ELSE remainingPlayers[1]])
                 /\ UNCHANGED games
            ELSE /\ \E round \in generateRound(tid, remainingPlayers) :
                       games' = games \o round
                 /\ Return(c, "returned")
    /\ UNCHANGED <<users, tournaments, participants, started>>

\* completeTournament: storage.updateTournament(status completed, endTime, winnerId)
CompleteTournament(c) ==
    /\ calls[c].pc = "c_complete"
    /\ tournaments' = [tournaments EXCEPT ![calls[c].tid].status = "completed",
                                          ![calls[c].tid].endTime = "stamped",
                                          ![calls[c].tid].winnerId = calls[c].winner]
    /\ Return(c, "returned")
    /\ UNCHANGED <<users, games, participants, started>>

(***************************************************************************)
(* TournamentService.scheduleAutomatedTournaments: two interval timers     *)
(* that, when the clock matches, create an automated tournament starting   *)
(* in 30 minutes.  A tick at any other time changes nothing, and no tick   *)
(* looks at the tournaments that exist.                                    *)
(***************************************************************************)
\* createAutomatedTournament -> createTournament -> storage.createTournament;
\* the start time is in the future, so no start is scheduled
SchedulerTick(tid, type) ==
    CreateTournament(tid, "upcoming",
                     IF type = "daily" THEN DailyMaxParticipants
                                       ELSE WeeklyMaxParticipants,
                     TRUE, "scheduled")

(***************************************************************************)
(* Cancelling a tournament.  TournamentService has no method that cancels  *)
(* and no route or bot command writes the status: a request to cancel      *)
(* finds nothing to run and fails without touching the database.           *)
(***************************************************************************)
CancelTournament(tid) ==
    /\ returned' = [op |-> "cancel", tid |-> tid, outcome |-> "NotImplemented"]
    /\ UNCHANGED <<users, games, tournaments, participants, calls, started, probe, bot>>

(***************************************************************************)
(* Functions evaluated on their own: the rating engine.                    *)
(***************************************************************************)
NewProbe(fn, args) == [NoProbe EXCEPT !.fn = fn, !.args = args]

NewRatingsProbes ==
    {NewProbe("calculateNewRatings",
              [player1Rating |-> r1, player2Rating |-> r2,
               player1GamesPlayed |-> g1, player2GamesPlayed |-> g2,
               result |-> res, options |-> o]) :
        r1 \in EloRatingInputs, r2 \in EloRatingInputs,
        g1 \in {10, DEFAULT_GAMES_PLAYED}, g2 \in {10, DEFAULT_GAMES_PLAYED},
        res \in MatchResults, o \in OptionInputs}

KFactorProbes ==
    {NewProbe("calculateKFactor",
              [playerRating |-> r, gamesPlayed |-> g, options |-> o]) :
        r \in EloRatingInputs \cup {MEDIUM_RATING_THRESHOLD},
        g \in GamesPlayedInputs, o \in OptionInputs}

InitElo ==
    /\ InitDatabase({DEFAULT_ELO})
    /\ probe \in NewRatingsProbes \cup KFactorProbes

\* the function returns out; the previous result is kept for comparison
Evaluate(out) ==
    /\ probe.runs < MaxRuns
    /\ probe' = [probe EXCEPT !.runs = @ + 1, !.prev = probe.out, !.out = out]
    /\ UNCHANGED <<users, games, tournaments, participants, calls, started, returned, bot>>

ApplyNewRatings ==
    /\ probe.fn = "calculateNewRatings"
    /\ LET a == probe.args IN
       Evaluate(calculateNewRatings(a.player1Rating, a.player2Rating,
                                    a.player1GamesPlayed, a.player2GamesPlayed,
                                    a.result, a.options))

ApplyKFactor ==
    /\ probe.fn = "calculateKFactor"
    /\ LET a == probe.args IN
       Evaluate(calculateKFactor(a.playerRating, a.gamesPlayed, a.options))

EloStep == ApplyNewRatings \/ ApplyKFactor

(***************************************************************************)
(* Functions evaluated on their own: the bracket generator.  The result of *)
(* a run is the sequence of rows it hands to storage.createGame.           *)
(***************************************************************************)
\* lists of at most MaxRound participants, each user at most once
ParticipantLists ==
    {ps \in UNION {[1..n -> Users] : n \in 0..MaxRound} :
        \A i, j \in DOMAIN ps : i # j => ps[i] # ps[j]}

BracketProbes ==
    {NewProbe(fn, [tournamentId |-> tid, participants |-> ps]) :
        fn \in {"generateSingleEliminationRound", "generateRoundRobinRound"},
        tid \in TournamentIds, ps \in ParticipantLists}

InitBracket ==
    /\ InitDatabase({DEFAULT_ELO})
    /\ probe \in BracketProbes

ApplySingleElimination ==
    /\ probe.fn = "generateSingleEliminationRound"
    /\ LET ps == probe.args.participants IN
       \E s \in Shuffles(ps) :
          Evaluate(SingleEliminationGames(probe.args.tournamentId,
                                          [i \in 1..Len(ps) |-> ps[s[i]]]))

ApplyRoundRobin ==
    /\ probe.fn = "generateRoundRobinRound"
    /\ Evaluate(RoundRobinGames(probe.args.tournamentId, probe.args.participants))

BracketStep == ApplySingleElimination \/ ApplyRoundRobin

(***************************************************************************)
(* Specifications.                                                         *)
(***************************************************************************)
\* no bound on the calls overall
AnyCalls == MaxJoins + MaxStarts + MaxCompletions + ScenarioCap

TournamentStep(statuses, caps, autos) ==
    \E tid \in TournamentIds, st \in statuses, cap \in caps, auto \in autos :
       CreateTournament(tid, st, cap, auto, NULL)

JoinStep(limit, total) ==
    \/ \E c \in Slots, tid \in TournamentIds : BeginJoin(c, tid, limit, total)
    \/ \E c \in Slots : JoinGet(c)
    \/ \E c \in Slots : JoinInsert(c)
    \/ \E c \in Slots : JoinIncrement(c)
    \/ \E c \in Slots : JoinAutoStart(c)

RouteJoinStep(total) ==
    \/ \E c \in Slots, tid \in TournamentIds : BeginRouteJoin(c, tid, MaxJoins, total)
    \/ \E c \in Slots : RouteJoinInsert(c)
    \/ \E c \in Slots : RouteJoinIncrement(c)

\* the steps of startTournament, also taken by the auto-start of a join
StartRunStep ==
    \/ \E c \in Slots : StartGet(c)
    \/ \E c \in Slots : StartRun(c)

StartStep(total) ==
    \/ \E c \in Slots, tid \in TournamentIds : BeginStart(c, tid, total)
    \/ StartRunStep

GameStep ==
    \/ \E p \in GamePlayers, tid \in TournamentIds :
          CreateGame(p[1], p[2], tid, TRUE)
    \/ \E g \in 1..MaxGames : FinishGame(g)

CompletionStep(total) ==
    \/ \E c \in Slots, g \in 1..MaxGames, r \in ResultInputs :
          BeginCompletion(c, g, r, total)
    \/ \E c \in Slots : CompletionGetGame(c)
    \/ \E c \in Slots : CompletionGetTournament(c)
    \/ \E c \in Slots : CompletionGetWhite(c)
    \/ \E c \in Slots : CompletionGetBlack(c)
    \/ \E c \in Slots : CompletionWrite(c)
    \/ \E c \in Slots : RoundCheckGet(c)
    \/ \E c \in Slots : RoundCheckGames(c)
    \/ \E c \in Slots : CompleteTournament(c)

ServiceStep ==
    \/ TournamentStep(TournamentStatus, CapInputs, BOOLEAN)
    \/ JoinStep(MaxJoins, AnyCalls)
    \/ StartStep(AnyCalls)

RoutesStep == ServiceStep \/ RouteJoinStep(AnyCalls)

RatingStep ==
    \/ TournamentStep(TournamentStatus, {MinParticipants}, {FALSE})
    \/ GameStep
    \/ CompletionStep(AnyCalls)

ScenarioStep ==
    \/ TournamentStep({"upcoming"}, {ScenarioCap}, {TRUE})
    \/ JoinStep(ScenarioCap, AnyCalls)
    \/ StartRunStep

Next ==
    \/ TournamentStep(TournamentStatus, {1}, {TRUE})
    \/ JoinStep(MaxJoins, MaxCalls)
    \/ RouteJoinStep(MaxCalls)
    \/ StartStep(MaxCalls)
    \/ GameStep
    \/ CompletionStep(MaxCalls)

\* a write of handleGameCompletion fails
FaultStep ==
    \/ \E c \in Slots : CompletionWriteFails(c)
    \/ \E c \in Slots : CompletionAbort(c)

FaultyRatingStep == RatingStep \/ FaultStep

\* POST /api/games with isRated as the request gives it
CasualGameStep ==
    \/ \E p \in GamePlayers, tid \in TournamentIds, rated \in BOOLEAN :
          CreateGame(p[1], p[2], tid, rated)
    \/ \E g \in 1..MaxGames : FinishGame(g)

CasualRatingStep ==
    \/ TournamentStep({"active"}, {MinParticipants}, {FALSE})
    \/ CasualGameStep
    \/ CompletionStep(AnyCalls)

CancelStep == \E tid \in TournamentIds : CancelTournament(tid)

CancellableStep == ServiceStep \/ CancelStep

SchedulerTickStep ==
    \E tid \in TournamentIds, type \in {"daily", "weekly"} : SchedulerTick(tid, type)

\* the steps of a handleGameCompletion call that has been started
CompletionProgress ==
    \/ \E c \in Slots : CompletionGetGame(c)
    \/ \E c \in Slots : CompletionGetTournament(c)
    \/ \E c \in Slots : CompletionGetWhite(c)
    \/ \E c \in Slots : CompletionGetBlack(c)
    \/ \E c \in Slots : CompletionWrite(c)
    \/ \E c \in Slots : RoundCheckGet(c)
    \/ \E c \in Slots : RoundCheckGames(c)
    \/ \E c \in Slots : CompleteTournament(c)

ScheduledStep ==
    \/ TournamentStep({"upcoming", "active"}, {MinParticipants}, {FALSE})
    \/ GameStep
    \/ CompletionStep(AnyCalls)
    \/ SchedulerTickStep

\* POST /api/games for the next game of a round of ScenarioCap competitors
CreateRoundGame(tid) ==
    /\ Len(games) < ScenarioCap \div 2
    /\ games' = Append(games, NewGame(NthUser(2 * Len(games) + 1),
                                      NthUser(2 * Len(games) + 2), tid, TRUE))
    /\ UNCHANGED <<users, tournaments, participants, calls, started, returned, probe, bot>>

\* the games of one round are stored, finished and their outcome recorded,
\* with at most one call in flight for each stored game
RoundStep ==
    \/ TournamentStep({"active"}, {ScenarioCap}, {FALSE})
    \/ \E tid \in TournamentIds : CreateRoundGame(tid)
    \/ \E g \in DOMAIN games : FinishGame(g)
    \/ \E c \in Slots, g \in DOMAIN games :
          /\ c <= Len(games)
          /\ BeginCompletion(c, g, "white_wins", AnyCalls)
    \/ CompletionProgress

\* outcomes recorded under every name calculateEloChange knows
AcceptedResultStep ==
    \/ TournamentStep({"active"}, {MinParticipants}, {FALSE})
    \/ GameStep
    \/ \E c \in Slots, g \in 1..MaxGames, r \in AcceptedResults :
          BeginCompletion(c, g, r, AnyCalls)
    \/ CompletionProgress

(***************************************************************************)
(* The Telegram bot (telegram/bot.ts): one chat, the game it plays against *)
(* the engine, and the callbacks of its inline keyboard.  A player move is *)
(* named by the number of its callback, a move of the engine by 0.         *)
(***************************************************************************)
BotUser == NthUser(1)
EngineMove == 0
ResignPenalty == 16

\* createNewGame has run for the chat: a game row and a session, player to move
InitBot ==
    /\ InitTables({DEFAULT_ELO})
    /\ probe = NoProbe
    /\ bot = [NoBot EXCEPT
                !.session = [active |-> TRUE, userId |-> BotUser, isPlayerTurn |-> TRUE],
                !.game = [status |-> "active", result |-> NULL, moveHistory |-> <<>>]]

HandlerRunning(h) == bot.handlers[h].pc # "done"

\* a new callback takes the lowest handler whose previous callback is over
FreeHandler(h) ==
    /\ ~HandlerRunning(h)
    /\ \A d \in Handlers : d < h => HandlerRunning(d)

BotOnly == UNCHANGED <<games, tournaments, participants, calls, started, returned, probe>>

\* callback 'move_...': processPlayerMove returns at once without a session
\* or when it is not the player's turn
BeginMove(h) ==
    /\ FreeHandler(h)
    /\ bot.callbacks < MaxCallbacks
    /\ bot' = [bot EXCEPT
                 !.callbacks = @ + 1,
                 !.handlers[h] =
                     IF ~bot.session.active \/ ~bot.session.isPlayerTurn
                     THEN IdleHandler
                     ELSE [IdleHandler EXCEPT !.op = "move", !.pc = "m_validate",
                                              !.move = bot.callbacks + 1]]
    /\ UNCHANGED users
    /\ BotOnly

\* await chessEngine.validateMove: an illegal move is reported and dropped
MoveValidate(h) ==
    /\ bot.handlers[h].pc = "m_validate"
    /\ \E isValid \in BOOLEAN :
         bot' = [bot EXCEPT !.handlers[h] =
                    IF isValid THEN [@ EXCEPT !.pc = "m_apply"] ELSE IdleHandler]
    /\ UNCHANGED users
    /\ BotOnly

\* await applyMove, then session.isPlayerTurn = false
MoveApply(h) ==
    /\ bot.handlers[h].pc = "m_apply"
    /\ bot' = [bot EXCEPT !.session.isPlayerTurn = FALSE,
                          !.handlers[h].pc = "m_read"]
    /\ UNCHANGED users
    /\ BotOnly

\* await getCurrentMoves, then currentMoves.push(move)
MoveRead(h) ==
    /\ bot.handlers[h].pc = "m_read"
    /\ bot' = [bot EXCEPT
                 !.handlers[h].moves = Append(bot.game.moveHistory, bot.handlers[h].move),
                 !.handlers[h].pc = "m_write"]
    /\ UNCHANGED users
    /\ BotOnly

\* await storage.updateGame with the player's move; a rejected write goes to
\* the catch block, which reports the error and returns
MoveWrite(h, outcomes) ==
    /\ bot.handlers[h].pc = "m_write"
    /\ \E ok \in outcomes :
         bot' = IF ok
                THEN [bot EXCEPT !.game.moveHistory = bot.handlers[h].moves,
                                 !.handlers[h].pc = "m_engine"]
                ELSE [bot EXCEPT !.handlers[h] = IdleHandler]
    /\ UNCHANGED users
    /\ BotOnly

\* checkGameOver returns null; await chessEngine.getBestMove, which rejects
\* when the engine gives no best move
MoveEngine(h, outcomes) ==
    /\ bot.handlers[h].pc = "m_engine"
    /\ \E ok \in outcomes :
         bot' = [bot EXCEPT !.handlers[h] =
                    IF ok THEN [@ EXCEPT !.pc = "m_reply"] ELSE IdleHandler]
    /\ UNCHANGED users
    /\ BotOnly

\* await applyMove for the engine's move, session.isPlayerTurn = true,
\* currentMoves.push(aiMove.uci)
MoveReply(h) ==
    /\ bot.handlers[h].pc = "m_reply"
    /\ bot' = [bot EXCEPT
                 !.session.isPlayerTurn = TRUE,
                 !.handlers[h].moves = Append(@, EngineMove),
                 !.handlers[h].pc = "m_store"]
    /\ UNCHANGED users
    /\ BotOnly

\* await storage.updateGame with the engine's move, then the state is sent
MoveStore(h, outcomes) ==
    /\ bot.handlers[h].pc = "m_store"
    /\ \E ok \in outcomes :
         bot' = IF ok
                THEN [bot EXCEPT !.game.moveHistory = bot.handlers[h].moves,
                                 !.handlers[h] = IdleHandler]
                ELSE [bot EXCEPT !.handlers[h] = IdleHandler]
    /\ UNCHANGED users
    /\ BotOnly

\* callback 'resign': handleResignCallback looks the session up
BeginResign(h) ==
    /\ FreeHandler(h)
    /\ bot.callbacks < MaxCallbacks
    /\ bot' = [bot EXCEPT
                 !.callbacks = @ + 1,
                 !.handlers[h] =
                     IF ~bot.session.active
                     THEN IdleHandler
                     ELSE [IdleHandler EXCEPT !.op = "resign", !.pc = "r_game"]]
    /\ UNCHANGED users
    /\ BotOnly

\* await storage.updateGame: completed, black_wins
ResignUpdateGame(h, outcomes) ==
    /\ bot.handlers[h].pc = "r_game"
    /\ \E ok \in outcomes :
         bot' = IF ok
                THEN [bot EXCEPT !.game.status = "completed",
                                 !.game.result = "black_wins",
                                 !.handlers[h].pc = "r_user"]
                ELSE [bot EXCEPT !.handlers[h] = IdleHandler]
    /\ UNCHANGED users
    /\ BotOnly

\* await storage.getUser(session.userId)
ResignGetUser(h) ==
    /\ bot.handlers[h].pc = "r_user"
    /\ bot' = [bot EXCEPT !.handlers[h].user = users[bot.session.userId],
                          !.handlers[h].pc = "r_write"]
    /\ UNCHANGED users
    /\ BotOnly

\* await storage.updateUser with the penalty; the session stays in the map
ResignUpdateUser(h, outcomes) ==
    /\ bot.handlers[h].pc = "r_write"
    /\ \E ok \in outcomes :
         /\ users' = IF ok
                     THEN [users EXCEPT ![bot.session.userId] =
                             [@ EXCEPT
                                !.eloRating = bot.handlers[h].user.eloRating - ResignPenalty,
                                !.gamesPlayed = bot.handlers[h].user.gamesPlayed + 1,
                                !.gamesLost = bot.handlers[h].user.gamesLost + 1]]
                     ELSE users
         /\ bot' = [bot EXCEPT !.handlers[h] = IdleHandler]
    /\ BotOnly

\* the callbacks of one chat; outcomes are those of the database and engine
BotStep(outcomes) ==
    \/ \E h \in Handlers : BeginMove(h)
    \/ \E h \in Handlers : MoveValidate(h)
    \/ \E h \in Handlers : MoveApply(h)
    \/ \E h \in Handlers : MoveRead(h)
    \/ \E h \in Handlers : MoveWrite(h, outcomes)
    \/ \E h \in Handlers : MoveEngine(h, outcomes)
    \/ \E h \in Handlers : MoveReply(h)
    \/ \E h \in Handlers : MoveStore(h, outcomes)
    \/ \E h \in Handlers : BeginResign(h)
    \/ \E h \in Handlers : ResignUpdateGame(h, outcomes)
    \/ \E h \in Handlers : ResignGetUser(h)
    \/ \E h \in Handlers : ResignUpdateUser(h, outcomes)

\* every entry point of the server, MaxCalls calls overall
Spec == Init /\ [][Next]_vars

\* registration and start through TournamentService alone
SpecService == Init /\ [][ServiceStep]_vars

\* registration through the service and through the join route
SpecRoutes == Init /\ [][RoutesStep]_vars

\* tournament games and the recording of their outcome
SpecRating == InitRatings /\ [][RatingStep]_vars

\* recording of outcomes over a database that may reject a write
SpecFaults == Init /\ [][FaultyRatingStep]_vars

\* outcomes of rated and unrated tournament games
SpecCasual == Init /\ [][CasualRatingStep]_vars

\* the rating engine on its own
SpecElo == InitElo /\ [][EloStep]_vars

\* the bracket generator on its own
SpecBracket == InitBracket /\ [][BracketStep]_vars

\* registration, start and requests to cancel
SpecCancel == Init /\ [][CancellableStep]_vars

\* tournament games with the scheduler running: the timers keep firing and
\* the event loop runs every started call to its end
SpecScheduler ==
    /\ Init
    /\ [][ScheduledStep]_vars
    /\ WF_vars(SchedulerTickStep)
    /\ WF_vars(CompletionProgress)

\* one round of a tournament; the event loop runs every started call to its end
SpecRounds ==
    /\ Init
    /\ [][RoundStep]_vars
    /\ WF_vars(CompletionProgress)

\* tournament games whose outcome arrives under any accepted name
SpecResults == Init /\ [][AcceptedResultStep]_vars

\* one chat playing the engine, every request answered
SpecBot == InitBot /\ [][BotStep({TRUE})]_vars

\* one chat playing the engine over a database and an engine that may fail
SpecBotFaults == InitBot /\ [][BotStep(BOOLEAN)]_vars

\* end-to-end scenario 1: an auto-start tournament of ScenarioCap competitors
SpecScenario == Init /\ [][ScenarioStep]_vars

(***************************************************************************)
(* Properties.                                                             *)
(***************************************************************************)
\* slot c takes a step
Steps(c) == calls'[c] # calls[c]

\* slot c takes the step with which its call returns or throws
Returns(c) == Running(c) /\ calls'[c].pc = "done"

AllowedTransitions ==
    {<<"upcoming", "active">>, <<"active", "completed">>,
     <<"upcoming", "cancelled">>, <<"active", "cancelled">>}

\* C1: joins through TournamentService.joinTournament, interleaved at their
\* awaits, never leave a tournament with currentParticipants above
\* maxParticipants.
C1_CapNeverExceeded ==
    \A t \in DOMAIN tournaments :
        tournaments[t].currentParticipants <= tournaments[t].maxParticipants

\* C2: however often handleGameCompletion runs for the same game, a player's
\* gamesPlayed counts each game they play in at most once.
C2_OutcomeAppliedOnce ==
    \A u \in Users :
        users[u].gamesPlayed <=
            Cardinality({g \in DOMAIN games :
                            u \in {games[g].whitePlayerId, games[g].blackPlayerId}})

\* C3: every stored eloRating stays within [RATING_FLOOR, RATING_CEILING].
C3_RatingWithinBounds ==
    \A u \in Users :
        /\ users[u].eloRating >= RATING_FLOOR
        /\ users[u].eloRating <= RATING_CEILING

\* C4: a tournament row is never removed and its status changes only along
\* upcoming->active, active->completed, upcoming->cancelled, active->cancelled;
\* a completed or cancelled tournament keeps its status.
C4_StatusTransitions ==
    [][\A t \in DOMAIN tournaments :
          /\ t \in DOMAIN tournaments'
          /\ tournaments'[t].status # tournaments[t].status
                => <<tournaments[t].status, tournaments'[t].status>> \in AllowedTransitions]_vars

\* a tournament that was active has been completed by completeTournament
C4_Witness ==
    \E t \in DOMAIN tournaments :
        /\ tournaments[t].status = "completed"
        /\ tournaments[t].endTime = "stamped"

\* C5: once ScenarioCap distinct competitors have joined an auto-start
\* tournament of that cap and every join has returned, the tournament is
\* active with ScenarioCap / 2 round-1 games.
C5_ScenarioRoundOne ==
    \A t \in DOMAIN tournaments :
        (/\ Cardinality(RegisteredUsers(t)) = ScenarioCap
         /\ started.join = ScenarioCap
         /\ \A c \in Slots : ~Running(c))
        => /\ tournaments[t].status = "active"
           /\ Cardinality(TournamentGames(t)) = ScenarioCap \div 2

\* C6: a startTournament that read the tournament as upcoming while at least
\* two participants were registered returns normally, with the tournament
\* active, its start time stamped and round-1 games created.
C6_StartSucceeds ==
    [][\A c \in Slots :
          (/\ calls[c].pc \in {"s_parts", "s_update", "s_round"}
           /\ calls[c].regs >= MinParticipants
           /\ Returns(c))
          => /\ returned'.outcome = "ok"
             /\ tournaments'[calls[c].tid].status = "active"
             /\ tournaments'[calls[c].tid].startTime = "stamped"
             /\ TournamentGames(calls[c].tid)' # {}]_vars

\* C7: startTournament on an active, completed or cancelled tournament throws
\* InvalidState at its status check and changes neither the tournament nor
\* the games.
C7_StartRejected ==
    [][\A c \in Slots :
          (/\ calls[c].pc = "s_get"
           /\ Steps(c)
           /\ TournamentExists(calls[c].tid)
           /\ tournaments[calls[c].tid].status \in {"active", "completed", "cancelled"})
          => /\ Returns(c)
             /\ returned'.outcome = "InvalidState"
             /\ UNCHANGED <<tournaments, games>>]_vars

\* a startTournament call has been rejected on a tournament that is not upcoming
C7_Witness ==
    /\ returned.op = "start"
    /\ returned.outcome = "InvalidState"
    /\ tournaments[returned.tid].status \in {"active", "completed", "cancelled"}

\* C8: a join request, through the service or through the route, for a
\* tournament that is not upcoming throws InvalidState, inserts no participant
\* row and leaves currentParticipants alone.
C8_JoinRejectedUnlessUpcoming ==
    [][\A c \in Slots :
          (/\ calls[c].pc \in {"j_get", "r_insert"}
           /\ Steps(c)
           /\ TournamentExists(calls[c].tid)
           /\ tournaments[calls[c].tid].status # "upcoming")
          => /\ Returns(c)
             /\ returned'.outcome = "InvalidState"
             /\ UNCHANGED <<participants, tournaments>>]_vars

\* C9: a join request for an unknown tournament throws NotFound and one for an
\* upcoming tournament with currentParticipants = maxParticipants throws Full;
\* neither inserts a participant row nor changes the counter.
C9_JoinNotFoundOrFull ==
    [][\A c \in Slots :
          (calls[c].pc \in {"j_get", "r_insert"} /\ Steps(c))
          => /\ ~TournamentExists(calls[c].tid)
                => /\ Returns(c)
                   /\ returned'.outcome = "NotFound"
                   /\ UNCHANGED <<participants, tournaments>>
             /\ (/\ TournamentExists(calls[c].tid)
                 /\ tournaments[calls[c].tid].status = "upcoming"
                 /\ tournaments[calls[c].tid].currentParticipants
                       = tournaments[calls[c].tid].maxParticipants)
                => /\ Returns(c)
                   /\ returned'.outcome = "Full"
                   /\ UNCHANGED <<participants, tournaments>>]_vars

\* C10: startTournament that passed the status check while fewer than two
\* participants are registered throws InsufficientParticipants; the
\* tournament stays upcoming with its start time as it was, no game is created.
C10_StartNeedsTwo ==
    [][\A c \in Slots :
          (/\ calls[c].pc = "s_parts"
           /\ Steps(c)
           /\ RegisteredCount(calls[c].tid) < MinParticipants)
          => /\ Returns(c)
             /\ returned'.outcome = "InsufficientParticipants"
             /\ tournaments'[calls[c].tid].status = "upcoming"
             /\ UNCHANGED <<tournaments, games>>]_vars

\* a start has been refused for lack of participants on an upcoming tournament
C10_Witness ==
    /\ returned.op \in {"start", "join"}
    /\ returned.outcome = "InsufficientParticipants"
    /\ RegisteredCount(returned.tid) < MinParticipants
    /\ tournaments[returned.tid].status = "upcoming"
    /\ tournaments[returned.tid].startTime = NULL

\* participants of a tournament that have not been eliminated
RemainingUsers(tid) ==
    {r.userId : r \in {x \in BagToSet(participants) :
                          x.tournamentId = tid /\ ~x.eliminated}}

\* C11: an active tournament with more than one non-eliminated participant
\* stays active, and one that is completed while exactly one remains records
\* that participant as winnerId.
C11_RoundCompletion ==
    [][\A t \in DOMAIN tournaments :
          (tournaments[t].status = "active" /\ t \in DOMAIN tournaments')
          => /\ Cardinality(RemainingUsers(t)) > 1
                => tournaments'[t].status = "active"
             /\ (/\ Cardinality(RemainingUsers(t)) = 1
                 /\ tournaments'[t].status = "completed")
                => tournaments'[t].winnerId \in RemainingUsers(t)]_vars

\* C12: when a write of the only handleGameCompletion call so far has been
\* rejected, both players' rows and the game's Elo changes are as the call
\* read them.
C12_AllOrNothing ==
    \A c \in Slots :
        (calls[c].pc = "h_abort" /\ started.complete = 1)
        => LET call == calls[c]
               g    == games[call.gid]
           IN  /\ users[g.whitePlayerId] = call.white
               /\ users[g.blackPlayerId] = call.black
               /\ g.whiteEloChange = 0
               /\ g.blackEloChange = 0

\* C13: handleGameCompletion for a game id that is not stored, or for a game
\* whose tournament is not stored, throws NotFound to its caller.
C13_MissingGameReported ==
    [][\A c \in Slots :
          (/\ Steps(c)
           /\ \/ calls[c].pc = "h_game" /\ calls[c].gid \notin DOMAIN games
              \/ calls[c].pc = "h_tournament" /\ ~TournamentExists(calls[c].tid))
          => /\ Returns(c)
             /\ returned'.outcome = "NotFound"]_vars

\* C14: a write of handleGameCompletion for a game whose isRated is false
\* leaves the eloRating of both players as it was.
C14_UnratedKeepsRating ==
    [][\A c \in Slots :
          (/\ calls[c].pc = "h_write"
           /\ Steps(c)
           /\ ~games[calls[c].gid].isRated)
          => \A u \in {games[calls[c].gid].whitePlayerId,
                       games[calls[c].gid].blackPlayerId} :
                users'[u].eloRating = users[u].eloRating]_vars

\* C15: calculateNewRatings(1200, 1200, 50, 50, 'player1_wins') without
\* options returns changePlayer1 = 16 and changePlayer2 = -16.
C15_EqualRatingsWin ==
    (/\ probe.fn = "calculateNewRatings"
     /\ probe.runs > 0
     /\ probe.args = [player1Rating |-> 1200, player2Rating |-> 1200,
                      player1GamesPlayed |-> 50, player2GamesPlayed |-> 50,
                      result |-> "player1_wins", options |-> NoOptions])
    => /\ probe.out.changePlayer1 = 16
       /\ probe.out.changePlayer2 = -16

\* the floor and the ceiling a caller asks for: the option when it is given
RequestedFloor(options) ==
    IF "ratingFloor" \in options.given THEN options.ratingFloor ELSE RATING_FLOOR

RequestedCeiling(options) ==
    IF "ratingCeiling" \in options.given THEN options.ratingCeiling ELSE RATING_CEILING

\* C16: both ratings returned by calculateNewRatings lie between the floor
\* and the ceiling asked for (the defaults when no override is given).
C16_ResultWithinBounds ==
    (probe.fn = "calculateNewRatings" /\ probe.runs > 0)
    => \A r \in {probe.out.newRatingPlayer1, probe.out.newRatingPlayer2} :
          /\ r >= RequestedFloor(probe.args.options)
          /\ r <= RequestedCeiling(probe.args.options)

\* the provisional threshold a caller asks for
RequestedThreshold(options) ==
    IF "provisionalThreshold" \in options.given
    THEN options.provisionalThreshold
    ELSE PROVISIONAL_GAMES_THRESHOLD

\* C17: without a kFactor option, calculateKFactor returns 40 whenever
\* gamesPlayed is below the threshold asked for, and returns a value other than
\* the provisional one only at or above it, that value being the rating band.
C17_ProvisionalPrecedence ==
    (/\ probe.fn = "calculateKFactor"
     /\ probe.runs > 0
     /\ "kFactor" \notin probe.args.options.given)
    => LET a == probe.args IN
       /\ a.gamesPlayed < RequestedThreshold(a.options)
             => probe.out = LOW_RATING_K_FACTOR
       /\ probe.out # LOW_RATING_K_FACTOR
             => /\ a.gamesPlayed >= RequestedThreshold(a.options)
                /\ probe.out = RatingBand(a.playerRating)

\* a player rated 2400 or more below a supplied threshold got the provisional K
C17_Witness ==
    /\ probe.fn = "calculateKFactor"
    /\ probe.runs > 0
    /\ probe.args.options.given = {"provisionalThreshold"}
    /\ probe.args.gamesPlayed >= PROVISIONAL_GAMES_THRESHOLD
    /\ probe.args.gamesPlayed < probe.args.options.provisionalThreshold
    /\ probe.args.playerRating >= HIGH_RATING_THRESHOLD
    /\ probe.out = LOW_RATING_K_FACTOR

\* the participants of a probe and the games of a round as sets
ProbeParticipants == {probe.args.participants[i] : i \in DOMAIN probe.args.participants}

PlayersOf(game) == {game.whitePlayerId, game.blackPlayerId}

Pairings(round) == {PlayersOf(round[m]) : m \in DOMAIN round}

GamesWith(round, u) == {m \in DOMAIN round : u \in PlayersOf(round[m])}

\* C18: a single-elimination round over n participants has n \div 2 games, no
\* game pairs a participant with themself, every participant is in at most one
\* game and at most one participant is in none.
C18_SingleEliminationRound ==
    (probe.fn = "generateSingleEliminationRound" /\ probe.runs > 0)
    => LET round == probe.out IN
       /\ Len(round) = Len(probe.args.participants) \div 2
       /\ \A m \in DOMAIN round :
             /\ round[m].whitePlayerId # round[m].blackPlayerId
             /\ PlayersOf(round[m]) \subseteq ProbeParticipants
       /\ \A u \in ProbeParticipants : Cardinality(GamesWith(round, u)) <= 1
       /\ Cardinality({u \in ProbeParticipants : GamesWith(round, u) = {}}) <= 1

\* a round over three participants: one game and one bye
C18_Witness ==
    /\ probe.fn = "generateSingleEliminationRound"
    /\ probe.runs > 0
    /\ Len(probe.args.participants) = 3
    /\ Len(probe.out) = 1
    /\ Cardinality({u \in ProbeParticipants : GamesWith(probe.out, u) = {}}) = 1

\* C19: a round-robin generation over n distinct participants has
\* n * (n - 1) / 2 games and every pair of distinct participants meets in
\* exactly one of them.
C19_RoundRobinPairs ==
    (probe.fn = "generateRoundRobinRound" /\ probe.runs > 0)
    => LET round == probe.out
           n     == Len(probe.args.participants)
       IN
       /\ Len(round) = (n * (n - 1)) \div 2
       /\ \A a, b \in ProbeParticipants :
             a # b => Cardinality({m \in DOMAIN round : PlayersOf(round[m]) = {a, b}}) = 1

\* a round robin over four participants has been generated: six games
C19_Witness ==
    /\ probe.fn = "generateRoundRobinRound"
    /\ probe.runs > 0
    /\ Len(probe.args.participants) = 4
    /\ Len(probe.out) = 6

\* C20: a single-elimination round pairs participants 2m-1 and 2m of the
\* list it is given, and a second run on the same list gives the same set of
\* pairings as the first.
C20_DeterministicPairing ==
    (probe.fn = "generateSingleEliminationRound" /\ probe.runs > 0)
    => LET ps == probe.args.participants IN
       /\ Pairings(probe.out) = {{ps[2 * m - 1], ps[2 * m]} : m \in 1..(Len(ps) \div 2)}
       /\ probe.runs > 1 => Pairings(probe.out) = Pairings(probe.prev)

\* C21: a request to cancel an upcoming or active tournament leaves it
\* cancelled and leaves every user's rating as it was.
C21_CancelSetsCancelled ==
    [][\A t \in DOMAIN tournaments :
          (/\ returned' # returned
           /\ returned'.op = "cancel"
           /\ returned'.tid = t
           /\ tournaments[t].status \in {"upcoming", "active"})
          => /\ tournaments'[t].status = "cancelled"
             /\ \A u \in Users : users'[u].eloRating = users[u].eloRating]_vars

\* an active tournament that has games, none of them active any more
RoundIsOver(t) ==
    /\ TournamentExists(t)
    /\ tournaments[t].status = "active"
    /\ TournamentGames(t) # {}
    /\ getTournamentActiveGames(t) = {}

\* C22: with the scheduler ticking, an active tournament whose games are all
\* finished is eventually completed or given the games of a next round.
C22_SchedulerFallback ==
    \A t \in TournamentIds :
        RoundIsOver(t) ~> (/\ TournamentExists(t)
                           /\ \/ tournaments[t].status = "completed"
                              \/ getTournamentActiveGames(t) # {})

\* the result of a game as calculateNewRatings names it, white being player 1
EngineResult(result) ==
    CASE GameResultOf(result) = "win"  -> "player1_wins"
      [] GameResultOf(result) = "loss" -> "player2_wins"
      [] GameResultOf(result) = "draw" -> "draw"

\* C23: the eloRating that handleGameCompletion writes for a player is the
\* rating it read plus the change calculateNewRatings returns for that player
\* from the two ratings and games-played counts the call read.
C23_ChangeFromEngine ==
    [][\A c \in Slots :
          (calls[c].pc = "h_write" /\ Steps(c))
          => LET call   == calls[c]
                 white  == games[call.gid].whitePlayerId
                 black  == games[call.gid].blackPlayerId
                 engine == calculateNewRatings(call.white.eloRating, call.black.eloRating,
                                               call.white.gamesPlayed, call.black.gamesPlayed,
                                               EngineResult(call.result), NoOptions)
             IN  /\ users'[white] # users[white]
                    => users'[white].eloRating = call.white.eloRating + engine.changePlayer1
                 /\ users'[black] # users[black]
                    => users'[black].eloRating = call.black.eloRating + engine.changePlayer2]_vars

\* C26: when the only joinTournament call so far has thrown, no participant
\* row has been inserted and currentParticipants is still 0.
C26_FailedJoinRecordsNothing ==
    (/\ returned.op = "join"
     /\ returned.outcome # "ok"
     /\ started.join = 1
     /\ \A c \in Slots : calls[c].op # "join")
    => \A t \in DOMAIN tournaments :
          /\ RegisteredCount(t) = 0
          /\ tournaments[t].currentParticipants = 0

\* the round of a tournament is stored in full and none of its games is active
RoundFinished(t) ==
    /\ TournamentExists(t)
    /\ tournaments[t].status = "active"
    /\ Len(games) = ScenarioCap \div 2
    /\ getTournamentActiveGames(t) = {}

\* C24: a handleGameCompletion call for a game of an active tournament whose
\* round is finished leads to the tournament being completed.
C24_RoundsTerminate ==
    \A c \in Slots :
        (/\ calls[c].op = "complete"
         /\ Running(c)
         /\ calls[c].gid \in DOMAIN games
         /\ RoundFinished(games[calls[c].gid].tournamentId))
        ~> (\E t \in DOMAIN tournaments : tournaments[t].status = "completed")

\* both games of the round are finished and the tournament is completed
C24_Witness ==
    /\ Len(games) = ScenarioCap \div 2
    /\ \A g \in DOMAIN games : games[g].status = "completed"
    /\ \E t \in DOMAIN tournaments :
          /\ tournaments[t].status = "completed"
          /\ tournaments[t].endTime = "stamped"

\* C25: completeTournament runs only for a tournament that is still active,
\* so a tournament is completed at most once, and a round check inserts games
\* only while the tournament has no active game.
C25_RoundGeneratedOnce ==
    [][\A c \in Slots :
          /\ (calls[c].pc = "c_complete" /\ Steps(c))
                => tournaments[calls[c].tid].status = "active"
          /\ (calls[c].pc = "c_games" /\ Steps(c) /\ games' # games)
                => getTournamentActiveGames(calls[c].tid) = {}]_vars

\* C27: for every user the games-played counter is the sum of the won, lost
\* and drawn counters, whatever accepted result string the outcomes of the
\* user's games were recorded under.
C27_CountersAddUp ==
    \A u \in Users :
        users[u].gamesPlayed
            = users[u].gamesWon + users[u].gamesLost + users[u].gamesDrawn

\* C28: the result of the chat's bot game is applied to its player at most
\* once: the player loses one game and one penalty at most, however many
\* resign or move callbacks follow the resignation.
C28_ResultAppliedOnce ==
    /\ users[BotUser].gamesPlayed <= 1
    /\ users[BotUser].gamesLost <= 1
    /\ users[BotUser].eloRating >= DEFAULT_ELO - ResignPenalty

\* C29: the stored move history of the chat's game only grows at its end and
\* never holds two player moves without an engine move between them.
C29_TurnsAlternate ==
    [][LET before == bot.game.moveHistory
           after  == bot'.game.moveHistory
       IN  /\ Len(after) >= Len(before)
           /\ SubSeq(after, 1, Len(before)) = before
           /\ \A i \in 1..(Len(after) - 1) :
                 after[i] = EngineMove \/ after[i + 1] = EngineMove]_vars

\* C30: once every move handler of the chat has returned and the chat has a
\* session, it is the player's turn.
C30_PlayerCanMove ==
    (/\ bot.callbacks > 0
     /\ \A h \in Handlers : ~HandlerRunning(h)
     /\ bot.session.active)
    => bot.session.isPlayerTurn

====
